---- MODULE Spec2Model ----
(***************************************************************************)
(* GentlePage backend: the HTML cleaner (Backend/Scraper.py) and the style *)
(* analyzer (Backend/StyleFinder.py) as state machines over a parsed       *)
(* document tree.                                                          *)
(*                                                                         *)
(* Strings that the code searches (substring tests, regular expressions,   *)
(* lower()) are decoded by Chars into sequences of one-character strings   *)
(* and the searches are computed on those sequences.                       *)
(*                                                                         *)
(* The parser is bs4 with html.parser: the content of <script> and <style> *)
(* is character data, <link>, <meta> and <img> are void, a class or rel    *)
(* attribute is a list of tokens, and get_text() of a tag skips the        *)
(* strings of <script> and <style> descendants (bs4 >= 4.11).              *)
(***************************************************************************)
EXTENDS Naturals, Integers, Sequences, FiniteSets, Bags, TLC

\* ------------------------------------------------------------------------
\* Strings as character sequences
\* ------------------------------------------------------------------------

Chars ==
  ("nav" :> <<"n","a","v">>) @@
  ("navigation" :> <<"n","a","v","i","g","a","t","i","o","n">>) @@
  ("menu" :> <<"m","e","n","u">>) @@
  ("navbar" :> <<"n","a","v","b","a","r">>) @@
  ("sl-nav" :> <<"s","l","-","n","a","v">>) @@
  ("offcanvas" :> <<"o","f","f","c","a","n","v","a","s">>) @@
  ("header-nav" :> <<"h","e","a","d","e","r","-","n","a","v">>) @@
  ("analytics" :> <<"a","n","a","l","y","t","i","c","s">>) @@
  ("gtag" :> <<"g","t","a","g">>) @@
  ("google-analytics" :> <<"g","o","o","g","l","e","-","a","n","a","l","y","t","i","c","s">>) @@
  ("googletagmanager" :> <<"g","o","o","g","l","e","t","a","g","m","a","n","a","g","e","r">>) @@
  ("facebook.net" :> <<"f","a","c","e","b","o","o","k",".","n","e","t">>) @@
  ("fbevents" :> <<"f","b","e","v","e","n","t","s">>) @@
  ("connect.facebook" :> <<"c","o","n","n","e","c","t",".","f","a","c","e","b","o","o","k">>) @@
  ("linkedin.com" :> <<"l","i","n","k","e","d","i","n",".","c","o","m">>) @@
  ("li.lms-analytics" :> <<"l","i",".","l","m","s","-","a","n","a","l","y","t","i","c","s">>) @@
  ("reddit" :> <<"r","e","d","d","i","t">>) @@
  ("pixel" :> <<"p","i","x","e","l">>) @@
  ("pinterest" :> <<"p","i","n","t","e","r","e","s","t">>) @@
  ("pintrk" :> <<"p","i","n","t","r","k">>) @@
  ("tiq.sunlife" :> <<"t","i","q",".","s","u","n","l","i","f","e">>) @@
  ("utag" :> <<"u","t","a","g">>) @@
  ("tealium" :> <<"t","e","a","l","i","u","m">>) @@
  ("cookielaw" :> <<"c","o","o","k","i","e","l","a","w">>) @@
  ("onetrust" :> <<"o","n","e","t","r","u","s","t">>) @@
  ("decibelinsight" :> <<"d","e","c","i","b","e","l","i","n","s","i","g","h","t">>) @@
  ("go-mpulse" :> <<"g","o","-","m","p","u","l","s","e">>) @@
  ("boomerang" :> <<"b","o","o","m","e","r","a","n","g">>) @@
  ("chrome-extension://" :> <<"c","h","r","o","m","e","-","e","x","t","e","n","s","i","o","n",":","/","/">>) @@
  ("coveo" :> <<"c","o","v","e","o">>) @@
  ("BOOMR" :> <<"B","O","O","M","R">>) @@
  ("utag_data" :> <<"u","t","a","g","_","d","a","t","a">>) @@
  ("fbq(" :> <<"f","b","q","(">>) @@
  ("gtag(" :> <<"g","t","a","g","(">>) @@
  ("_linkedin_data_partner_ids" :> <<"_","l","i","n","k","e","d","i","n","_","d","a","t","a","_","p","a","r","t","n","e","r","_","i","d","s">>) @@
  ("apolloio" :> <<"a","p","o","l","l","o","i","o">>) @@
  ("extension-opener" :> <<"e","x","t","e","n","s","i","o","n","-","o","p","e","n","e","r">>) @@
  ("simplify-jobs" :> <<"s","i","m","p","l","i","f","y","-","j","o","b","s">>) @@
  ("display" :> <<"d","i","s","p","l","a","y">>) @@
  ("none" :> <<"n","o","n","e">>) @@
  ("inherit" :> <<"i","n","h","e","r","i","t">>) @@
  ("initial" :> <<"i","n","i","t","i","a","l">>) @@
  ("unset" :> <<"u","n","s","e","t">>) @@
  ("transparent" :> <<"t","r","a","n","s","p","a","r","e","n","t">>) @@
  ("currentColor" :> <<"c","u","r","r","e","n","t","C","o","l","o","r">>) @@
  ("currentcolor" :> <<"c","u","r","r","e","n","t","c","o","l","o","r">>) @@
  ("color" :> <<"c","o","l","o","r">>) @@
  ("background-color" :> <<"b","a","c","k","g","r","o","u","n","d","-","c","o","l","o","r">>) @@
  ("border-color" :> <<"b","o","r","d","e","r","-","c","o","l","o","r">>) @@
  ("fill" :> <<"f","i","l","l">>) @@
  ("stroke" :> <<"s","t","r","o","k","e">>) @@
  ("rgb" :> <<"r","g","b">>) @@
  ("hsl" :> <<"h","s","l">>) @@
  ("" :> <<>>) @@
  ("navbar-brand" :> <<"n","a","v","b","a","r","-","b","r","a","n","d">>) @@
  ("site-menu" :> <<"s","i","t","e","-","m","e","n","u">>) @@
  ("cookie" :> <<"c","o","o","k","i","e">>) @@
  ("banner" :> <<"b","a","n","n","e","r">>) @@
  ("cookie-banner" :> <<"c","o","o","k","i","e","-","b","a","n","n","e","r">>) @@
  ("apolloio-btn" :> <<"a","p","o","l","l","o","i","o","-","b","t","n">>) @@
  ("hero" :> <<"h","e","r","o">>) @@
  ("Navigation" :> <<"N","a","v","i","g","a","t","i","o","n">>) @@
  ("menuOpen" :> <<"m","e","n","u","O","p","e","n">>) @@
  ("menuopen" :> <<"m","e","n","u","o","p","e","n">>) @@
  ("nav-header" :> <<"n","a","v","-","h","e","a","d","e","r">>) @@
  ("sl-header-offcanvas" :> <<"s","l","-","h","e","a","d","e","r","-","o","f","f","c","a","n","v","a","s">>) @@
  ("menuClose" :> <<"m","e","n","u","C","l","o","s","e">>) @@
  ("onetrust-banner-sdk" :> <<"o","n","e","t","r","u","s","t","-","b","a","n","n","e","r","-","s","d","k">>) @@
  ("onetrust-consent-sdk" :> <<"o","n","e","t","r","u","s","t","-","c","o","n","s","e","n","t","-","s","d","k">>) @@
  ("onetrust-pc-sdk" :> <<"o","n","e","t","r","u","s","t","-","p","c","-","s","d","k">>) @@
  ("utag_sync" :> <<"u","t","a","g","_","s","y","n","c">>) @@
  ("main" :> <<"m","a","i","n">>) @@
  ("https://www.googletagmanager.com/gtm.js" :> <<"h","t","t","p","s",":","/","/","w","w","w",".","g","o","o","g","l","e","t","a","g","m","a","n","a","g","e","r",".","c","o","m","/","g","t","m",".","j","s">>) @@
  ("/app.js" :> <<"/","a","p","p",".","j","s">>) @@
  ("/js/Pixel.js" :> <<"/","j","s","/","P","i","x","e","l",".","j","s">>) @@
  ("window.BOOMR=1" :> <<"w","i","n","d","o","w",".","B","O","O","M","R","=","1">>) @@
  ("gtag('js')" :> <<"g","t","a","g","(","'","j","s","'",")">>) @@
  ("var a=1" :> <<"v","a","r"," ","a","=","1">>) @@
  ("display:none" :> <<"d","i","s","p","l","a","y",":","n","o","n","e">>) @@
  ("DISPLAY : NONE" :> <<"D","I","S","P","L","A","Y"," ",":"," ","N","O","N","E">>) @@
  ("color:red" :> <<"c","o","l","o","r",":","r","e","d">>) @@
  ("display:block" :> <<"d","i","s","p","l","a","y",":","b","l","o","c","k">>) @@
  ("color: #FF0000; background-color: rgba(0,0,0,0.5);" :> <<"c","o","l","o","r",":"," ","#","F","F","0","0","0","0",";"," ","b","a","c","k","g","r","o","u","n","d","-","c","o","l","o","r",":"," ","r","g","b","a","(","0",",","0",",","0",",","0",".","5",")",";">>) @@
  ("color: transparent;" :> <<"c","o","l","o","r",":"," ","t","r","a","n","s","p","a","r","e","n","t",";">>) @@
  ("fill: NONE; stroke: currentColor" :> <<"f","i","l","l",":"," ","N","O","N","E",";"," ","s","t","r","o","k","e",":"," ","c","u","r","r","e","n","t","C","o","l","o","r">>) @@
  ("color: Inherit; border: 1px solid red" :> <<"c","o","l","o","r",":"," ","I","n","h","e","r","i","t",";"," ","b","o","r","d","e","r",":"," ","1","p","x"," ","s","o","l","i","d"," ","r","e","d">>) @@
  ("color:#abcdefg;fill:hsl(0,0%,50%)" :> <<"c","o","l","o","r",":","#","a","b","c","d","e","f","g",";","f","i","l","l",":","h","s","l","(","0",",","0","%",",","5","0","%",")">>) @@
  ("color: red2; stroke : blue" :> <<"c","o","l","o","r",":"," ","r","e","d","2",";"," ","s","t","r","o","k","e"," ",":"," ","b","l","u","e">>) @@
  ("#FF0000" :> <<"#","F","F","0","0","0","0">>) @@
  ("rgba(0,0,0,0.5)" :> <<"r","g","b","a","(","0",",","0",",","0",",","0",".","5",")">>) @@
  ("rgba" :> <<"r","g","b","a">>) @@
  ("red" :> <<"r","e","d">>) @@
  ("blue" :> <<"b","l","u","e">>) @@
  ("#fff" :> <<"#","f","f","f">>) @@
  ("NONE" :> <<"N","O","N","E">>) @@
  ("Transparent" :> <<"T","r","a","n","s","p","a","r","e","n","t">>) @@
  ("hsl(0,0%,50%)" :> <<"h","s","l","(","0",",","0","%",",","5","0","%",")">>) @@
  ("Inherit" :> <<"I","n","h","e","r","i","t">>) @@
  ("body{color:#FFF;background-color:#fff}" :> <<"b","o","d","y","{","c","o","l","o","r",":","#","F","F","F",";","b","a","c","k","g","r","o","u","n","d","-","c","o","l","o","r",":","#","f","f","f","}">>) @@
  ("#FFF" :> <<"#","F","F","F">>) @@
  ("/logo.png" :> <<"/","l","o","g","o",".","p","n","g">>) @@
  ("/a.css" :> <<"/","a",".","c","s","s">>) @@
  ("utf-8" :> <<"u","t","f","-","8">>) @@
  ("description" :> <<"d","e","s","c","r","i","p","t","i","o","n">>) @@
  ("viewport" :> <<"v","i","e","w","p","o","r","t">>) @@
  ("#" :> <<"#">>)

LowerMap ==
  ("A" :> "a") @@ ("B" :> "b") @@ ("C" :> "c") @@ ("D" :> "d") @@ ("E" :> "e") @@
  ("F" :> "f") @@ ("G" :> "g") @@ ("H" :> "h") @@ ("I" :> "i") @@ ("J" :> "j") @@
  ("K" :> "k") @@ ("L" :> "l") @@ ("M" :> "m") @@ ("N" :> "n") @@ ("O" :> "o") @@
  ("P" :> "p") @@ ("Q" :> "q") @@ ("R" :> "r") @@ ("S" :> "s") @@ ("T" :> "t") @@
  ("U" :> "u") @@ ("V" :> "v") @@ ("W" :> "w") @@ ("X" :> "x") @@ ("Y" :> "y") @@
  ("Z" :> "z")

LowerLetters == {LowerMap[c] : c \in DOMAIN LowerMap}

Digits == {"0", "1", "2", "3", "4", "5", "6", "7", "8", "9"}

\* str.lower() on one character and on a string.
LowerChar(c) == IF c \in DOMAIN LowerMap THEN LowerMap[c] ELSE c

Lower(s) == [i \in 1..Len(s) |-> LowerChar(s[i])]

\* Python's `needle in hay` on strings.
Contains(hay, needle) ==
  \E i \in 1..(Len(hay) + 1) :
    /\ i + Len(needle) - 1 <= Len(hay)
    /\ \A k \in 1..Len(needle) : hay[i + k - 1] = needle[k]

\* ' '.join(tokens) for a list of strings given as character sequences.
RECURSIVE JoinSpace(_)
JoinSpace(toks) ==
  IF toks = <<>> THEN <<>>
  ELSE IF Len(toks) = 1 THEN toks[1]
  ELSE toks[1] \o <<" ">> \o JoinSpace(Tail(toks))

\* The characters of each token of a class list.
TokChars(toks) == [i \in 1..Len(toks) |-> Chars[toks[i]]]

\* Regular-expression character classes: \w, \s, [a-z] and [0-9a-fA-F]
\* under re.IGNORECASE.
IsLetter(c) == LowerChar(c) \in LowerLetters

IsWordChar(c) == IsLetter(c) \/ c \in Digits \/ c = "_"

IsSpace(c) == c \in {" ", "\t", "\n", "\r"}

IsHexDigit(c) == c \in Digits \/ LowerChar(c) \in {"a", "b", "c", "d", "e", "f"}

\* ------------------------------------------------------------------------
\* The document tree
\* ------------------------------------------------------------------------

VARIABLES
  prog,       \* which script runs: "scraper", "stylefinder" or "classifier"
  file,       \* Sample.txt: "ok", "missing" or "unreadable"
  mpc,        \* the position of main()
  exc,        \* the exception in flight or handled ("none" when there is none)
  console,    \* the messages printed so far
  written,    \* whether the output file has been opened for writing
  input,      \* the parsed input: elements 1..n in document order
  attrs,      \* each element's attribute dictionary
  gone,       \* the decomposed elements
  phase,      \* the loop of clean_html being run (an index into Pipeline)
  queue,      \* the part of that loop's find_all() result still to be visited
  run,        \* how many times the rule pipeline has been started on the tree
  all_colors,            \* analyze_styles: the raw color tokens
  external_stylesheets,  \* analyze_styles: the stylesheet hrefs
  color_counter,         \* analyze_styles: the color frequency table
  navArg,     \* classifier: the element last passed to is_in_navigation
  navResult   \* classifier: what that call returned

vars == <<prog, file, mpc, exc, console, written, input, attrs, gone, phase,
          queue, run, all_colors, external_stylesheets, color_counter,
          navArg, navResult>>

\* Number of elements of an input document.
MaxNodes == 3

\* Python's None, as a parent and as a call result.
None == -1

\* The BeautifulSoup object: the parent of the top-level elements.
Root == 0

EmptyDict == [k \in {} |-> ""]

El(tag, at, text, string) ==
  [tag |-> tag, attrs |-> at, text |-> text, string |-> string]

Nodes == 1..Len(input)

\* element.parent; a decomposed element has lost its attributes, parent included.
ParentOf(g, e) == IF e = Root \/ e \in g THEN None ELSE input[e].parent

\* element.name; None (here "") on a decomposed element.
NameOf(g, e) ==
  IF e = Root THEN "[document]" ELSE IF e \in g THEN "" ELSE input[e].tag

\* The proper ancestors of e below the BeautifulSoup object, in the parsed input.
RECURSIVE AncestorsIn(_, _)
AncestorsIn(doc, e) ==
  IF doc[e].parent = Root THEN {}
  ELSE {doc[e].parent} \cup AncestorsIn(doc, doc[e].parent)

\* The elements below e in the tree now (none below a decomposed element).
Descendants(g, e) ==
  IF e \in g THEN {} ELSE {d \in Nodes \ g : e \in AncestorsIn(input, d)}

\* A set of elements as the list find_all() returns: in document order.
RECURSIVE InDocOrder(_)
InDocOrder(S) ==
  IF S = {} THEN <<>>
  ELSE LET m == CHOOSE x \in S : \A y \in S : x <= y
       IN  <<m>> \o InDocOrder(S \ {m})

\* tag.has_attr(a) and tag.get(a, default) on an element still in the tree.
HasAttr(at, e, a) == e # Root /\ a \in DOMAIN at[e]

Get(at, e, a, default) == IF HasAttr(at, e, a) THEN at[e][a] ELSE default

\* del tag[a]
DelAttr(d, a) == [k \in DOMAIN d \ {a} |-> d[k]]

RECURSIVE DelAttrs(_, _)
DelAttrs(d, names) ==
  IF names = <<>> THEN d ELSE DelAttrs(DelAttr(d, Head(names)), Tail(names))

\* Tags whose content html.parser reads as character data.
CDataTags == {"script", "style"}

\* Void elements and character-data elements have no child elements.
ChildlessTags == CDataTags \cup {"link", "meta", "img"}

RECURSIVE SumText(_)
SumText(S) ==
  IF S = {} THEN 0
  ELSE LET d == CHOOSE x \in S : TRUE IN input[d].text + SumText(S \ {d})

\* len(element.get_text(strip=True)): the stripped strings of the element and
\* its descendants, those of script and style descendants left out; a script
\* or style element's own text is its content.
TextLen(g, e) ==
  IF e \in g THEN 0
  ELSE IF input[e].tag \in CDataTags THEN Len(Chars[input[e].string])
  ELSE SumText({d \in Descendants(g, e) \cup {e} : input[d].tag \notin CDataTags})

\* script.get_text()
ScriptText(g, e) == IF e \in g THEN <<>> ELSE Chars[input[e].string]

\* tag.find(name) is not None / tag.find_all(names) is non-empty
HasDescendant(g, e, names) == \E d \in Descendants(g, e) : input[d].tag \in names

\* element.decompose(): the element and everything below it leave the tree.
Decompose(g, e) == g \cup {e} \cup Descendants(g, e)

\* ------------------------------------------------------------------------
\* Navigation Classifier
\* ------------------------------------------------------------------------

nav_tags == {"nav", "header"}

nav_classes == <<"nav", "navigation", "menu", "navbar", "sl-nav", "offcanvas">>

nav_ids == {"nav-header", "sl-nav", "sl-header-offcanvas", "menuOpen", "menuClose"}

\* any(needle in text for needle in needles)
ContainsAny(text, needles) ==
  \E i \in 1..Len(needles) : Contains(text, Chars[needles[i]])

\* ' '.join(tag.get('class', []))
ClassString(at, e) == JoinSpace(TokChars(Get(at, e, "class", <<>>)))

\* The while loop of is_in_navigation, from ancestor p upward.
RECURSIVE NavWalk(_, _, _)
NavWalk(g, at, p) ==
  IF p = None THEN FALSE
  ELSE IF NameOf(g, p) \in nav_tags THEN TRUE
  ELSE IF /\ Get(at, p, "class", <<>>) # <<>>
          /\ ContainsAny(ClassString(at, p), nav_classes) THEN TRUE
  ELSE IF Get(at, p, "id", "") \in nav_ids THEN TRUE
  ELSE NavWalk(g, at, ParentOf(g, p))

\* A walk that starts at the element itself instead of its parent.
NavWalkFromSelf(g, at, e) == NavWalk(g, at, e)

is_in_navigation(g, at, e) == NavWalk(g, at, ParentOf(g, e))

\* ------------------------------------------------------------------------
\* The cleaner's rules
\* ------------------------------------------------------------------------

unwanted_tags == <<"style", "footer", "iframe", "noscript">>

header_nav_classes == <<"nav", "navigation", "menu", "header-nav">>

trackers ==
  <<"analytics", "gtag", "google-analytics", "googletagmanager",
    "facebook.net", "fbevents", "connect.facebook",
    "linkedin.com", "li.lms-analytics",
    "reddit", "pixel",
    "pinterest", "pintrk",
    "tiq.sunlife", "utag", "tealium",
    "cookielaw", "onetrust",
    "decibelinsight",
    "go-mpulse", "boomerang",
    "chrome-extension://",
    "coveo">>

inline_keywords == <<"utag_data", "fbq(", "gtag(", "_linkedin_data_partner_ids">>

extension_tags == {"grammarly-desktop-integration", "simplify-jobs-page-script"}

extension_classes == <<"apolloio", "extension-opener", "simplify-jobs">>

consent_ids == <<"onetrust-consent-sdk", "onetrust-banner-sdk", "onetrust-pc-sdk">>

cookie_classes == <<"cookie", "banner">>

attrs_to_remove ==
  <<"data-sl-aem-component", "data-sl-component", "data-cmp-hook-accordion",
    "data-class", "data-class-icon",
    "data-parsley-validate", "data-parsley-error-message",
    "data-parsley-id", "data-parsley-pattern", "data-parsley-pattern-message",
    "data-parsley-required", "data-parsley-required-message", "data-single-expansion",
    "data-title", "data-cy", "data-grammarly-shadow-root">>

fa_attrs == <<"data-fa-i2svg", "data-icon", "data-prefix">>

bs_attrs == <<"data-bs-target", "data-bs-toggle", "data-bs-dismiss">>

important_tags == {"img", "a", "h1", "h2", "h3", "h4", "h5", "h6", "svg"}

\* Fewer characters of text than this is "no meaningful text".
MinTextLen == 10

\* The loops of clean_html in order; a rule that loops over a list of tags,
\* ids or classes has one entry per item.
Pipeline ==
  << [rule |-> "unwanted", arg |-> unwanted_tags[1]],
     [rule |-> "unwanted", arg |-> unwanted_tags[2]],
     [rule |-> "unwanted", arg |-> unwanted_tags[3]],
     [rule |-> "unwanted", arg |-> unwanted_tags[4]],
     [rule |-> "header", arg |-> ""],
     [rule |-> "script", arg |-> ""],
     [rule |-> "ext_tag", arg |-> ""],
     [rule |-> "ext_class", arg |-> ""],
     [rule |-> "link_hint", arg |-> ""],
     [rule |-> "meta", arg |-> ""],
     [rule |-> "link_seo", arg |-> ""],
     [rule |-> "consent", arg |-> consent_ids[1]],
     [rule |-> "consent", arg |-> consent_ids[2]],
     [rule |-> "consent", arg |-> consent_ids[3]],
     [rule |-> "cookie", arg |-> cookie_classes[1]],
     [rule |-> "cookie", arg |-> cookie_classes[2]],
     [rule |-> "aria_hidden", arg |-> ""],
     [rule |-> "display_none", arg |-> ""],
     [rule |-> "attributes", arg |-> ""],
     [rule |-> "empty", arg |-> ""] >>

Serializing == Len(Pipeline) + 1

\* bs4's match of a list-valued attribute (class, rel) against a set of
\* strings: some token is one of them.
HasToken(at, e, a, wanted) ==
  LET toks == Get(at, e, a, <<>>)
  IN  \E i \in 1..Len(toks) : toks[i] \in wanted

\* bs4's match of the class attribute against the compiled pattern
\* 'apolloio|extension-opener|simplify-jobs': the pattern is searched in each
\* token, then in the whole attribute value.
ClassMatchesExtension(at, e) ==
  LET toks == Get(at, e, "class", <<>>)
  IN  /\ HasAttr(at, e, "class")
      /\ \/ \E i \in 1..Len(toks) : ContainsAny(Chars[toks[i]], extension_classes)
         \/ ContainsAny(ClassString(at, e), extension_classes)

\* What find_all() / find() of a loop selects among the elements in the tree.
Selects(ph, at, e) ==
  LET r == Pipeline[ph].rule
      a == Pipeline[ph].arg
      tag == input[e].tag
  IN  CASE r = "unwanted" -> tag = a
        [] r = "header" -> tag = "header"
        [] r = "script" -> tag = "script"
        [] r = "ext_tag" -> tag \in extension_tags
        [] r = "ext_class" -> ClassMatchesExtension(at, e)
        [] r = "link_hint" -> tag = "link" /\ HasToken(at, e, "rel", {"preload", "prefetch"})
        [] r = "meta" -> tag = "meta"
        [] r = "link_seo" -> tag = "link" /\ HasToken(at, e, "rel", {"canonical", "alternate"})
        [] r = "consent" -> Get(at, e, "id", "") = a
        [] r = "cookie" -> HasToken(at, e, "class", {a})
        [] r = "aria_hidden" -> Get(at, e, "aria-hidden", "") = "true"
        [] r = "display_none" -> HasAttr(at, e, "style")
        [] r = "attributes" -> TRUE
        [] r = "empty" -> tag \in {"div", "span"}

\* The list a loop iterates over, taken when the loop starts: soup.find_all()
\* returns all matches; soup.find(id=...) gives the first match only.
Snapshot(ph, g, at) ==
  LET all == InDocOrder({e \in Nodes \ g : Selects(ph, at, e)})
  IN  IF Pipeline[ph].rule = "consent" /\ all # <<>> THEN <<all[1]>> ELSE all

\* The next loop after ph whose find_all() selects something (Serializing
\* if there is none).
NextPhase(ph, g, at) ==
  LET later == {j \in (ph + 1)..Len(Pipeline) : \E e \in Nodes \ g : Selects(j, at, e)}
  IN  IF later = {} THEN Serializing
      ELSE CHOOSE k \in later : \A m \in later : k <= m

\* header_element.find('nav') is not None
has_nav(g, e) == HasDescendant(g, e, {"nav"})

\* any(nav_class in ' '.join(header_element.get('class', [])) ...)
has_nav_class(at, e) == ContainsAny(ClassString(at, e), header_nav_classes)

\* A first branch without the src deny-list.
IsTrackerWithoutSrc(g, at, e) ==
  \/ Contains(Chars[Get(at, e, "id", "")], Chars["utag"])
  \/ Contains(ScriptText(g, e), Chars["BOOMR"])

\* The first branch of the script filter: the src deny-list, the id, BOOMR.
IsTracker(g, at, e) ==
  \/ ContainsAny(Lower(Chars[Get(at, e, "src", "")]), trackers)
  \/ Contains(Chars[Get(at, e, "id", "")], Chars["utag"])
  \/ Contains(ScriptText(g, e), Chars["BOOMR"])

IsJsonLd(at, e) == Get(at, e, "type", "") = "application/ld+json"

IsInlineTracking(g, e) == ContainsAny(ScriptText(g, e), inline_keywords)

ScriptRemoved(g, at, e) ==
  IsTracker(g, at, e) \/ IsJsonLd(at, e) \/ IsInlineTracking(g, e)

\* not (meta.get('charset') or meta.get('name') in ['viewport', 'charset'])
MetaRemoved(at, e) ==
  ~(Get(at, e, "charset", "") # "" \/ Get(at, e, "name", "") \in {"viewport", "charset"})

\* re.search(r'display\s*:\s*none', style_value)
DisplayNone(s) ==
  \E i \in 1..Len(s) : \E j \in i..Len(s) : \E k \in j..Len(s) :
    /\ i + 6 < j /\ SubSeq(s, i, i + 6) = Chars["display"]
    /\ \A x \in (i + 7)..(j - 1) : IsSpace(s[x])
    /\ s[j] = ":"
    /\ j < k /\ \A x \in (j + 1)..(k - 1) : IsSpace(s[x])
    /\ k + 3 <= Len(s) /\ SubSeq(s, k, k + 3) = Chars["none"]

\* An attribute loop that makes no difference between regions.
RemovedAttrsEverywhere(g, at, e) == attrs_to_remove \o fa_attrs \o bs_attrs

\* The attributes the attribute loop deletes from a tag.
RemovedAttrs(g, at, e) ==
  attrs_to_remove
    \o (IF ~is_in_navigation(g, at, e) THEN fa_attrs ELSE <<>>)
    \o (IF ~is_in_navigation(g, at, e) THEN bs_attrs ELSE <<>>)

\* A test that only takes containers with no element below them.
IsChildlessContainer(g, at, e) ==
  /\ ~is_in_navigation(g, at, e)
  /\ TextLen(g, e) = 0
  /\ Descendants(g, e) = {}

\* The test of the empty-container loop on a div or span.
IsEmptyContainer(g, at, e) ==
  /\ ~(is_in_navigation(g, at, e) \/ HasDescendant(g, e, {"svg"}))
  /\ TextLen(g, e) = 0
  /\ ~HasDescendant(g, e, important_tags)

\* ------------------------------------------------------------------------
\* Input documents of the cleaner
\* ------------------------------------------------------------------------

Attr(name, value) == name :> value

Nav == El("nav", EmptyDict, 0, "")

Header == El("header", EmptyDict, 0, "")

HeaderMenu == El("header", Attr("class", <<"site-menu">>), 0, "")

Footer == El("footer", EmptyDict, 0, "")

Div == El("div", EmptyDict, 0, "")

P10 == El("p", EmptyDict, 10, "")

DivHidden5 == El("div", Attr("aria-hidden", "true"), 5, "")

DivHidden0 == El("div", Attr("aria-hidden", "true"), 0, "")

DivNone == El("div", Attr("style", "display:none"), 0, "")

Span5 == El("span", Attr("style", "color:red") @@ Attr("data-cy", "label"), 5, "")

A4 ==
  El("a", Attr("href", "#") @@ Attr("data-bs-toggle", "dropdown")
            @@ Attr("data-icon", "bars"), 4, "")

DivCookie == El("div", Attr("class", <<"cookie">>), 5, "")

DivConsent == El("div", Attr("id", "onetrust-banner-sdk"), 0, "")

DivNavbar ==
  El("div", Attr("class", <<"hero", "navbar-brand">>)
              @@ Attr("data-bs-target", "#menu"), 0, "")

SvgHidden == El("svg", Attr("aria-hidden", "true") @@ Attr("data-prefix", "fas"), 0, "")

Grammarly == El("grammarly-desktop-integration", EmptyDict, 0, "")

DivApollo == El("div", Attr("class", <<"apolloio-btn">>), 5, "")

ScriptGtm ==
  El("script", Attr("src", "https://www.googletagmanager.com/gtm.js"), 0, "")

ScriptApp == El("script", Attr("src", "/app.js"), 0, "")

ScriptInline == El("script", EmptyDict, 0, "gtag('js')")

ScriptJsonLd == El("script", Attr("type", "application/ld+json"), 0, "var a=1")

Img == El("img", Attr("src", "/logo.png"), 0, "")

LinkPreload == El("link", Attr("rel", <<"preload">>) @@ Attr("href", "/a.css"), 0, "")

LinkCanonical == El("link", Attr("rel", <<"canonical">>) @@ Attr("href", "/"), 0, "")

MetaCharset == El("meta", Attr("charset", "utf-8"), 0, "")

MetaDescription == El("meta", Attr("name", "description"), 0, "")

ScraperPalette ==
  {Nav, Header, HeaderMenu, Footer, Div, P10, DivHidden0, DivHidden5, DivNone,
   Span5, A4, DivCookie, DivConsent, DivNavbar, SvgHidden, Grammarly, DivApollo,
   ScriptGtm, ScriptApp, ScriptInline, ScriptJsonLd, Img, LinkPreload,
   LinkCanonical, MetaCharset, MetaDescription}

\* The element with its parent: an element of a parsed document.
Node(el, parent) ==
  [tag |-> el.tag, attrs |-> el.attrs, text |-> el.text, string |-> el.string,
   parent |-> parent]

\* e and its ancestors up to the BeautifulSoup object, by parent vector p.
RECURSIVE PathToRoot(_, _)
PathToRoot(p, e) == IF e = Root THEN {Root} ELSE {e} \cup PathToRoot(p, p[e])

\* The parent vectors of the trees of n elements numbered in document order.
Shapes(n) ==
  {p \in [1..n -> 0..(n - 1)] :
     \A i \in 1..n : IF i = 1 THEN p[i] = Root ELSE p[i] \in PathToRoot(p, i - 1)}

\* The documents the parser can produce from a palette of elements.
Documents(palette, n) ==
  {doc \in {[i \in 1..n |-> Node(lab[i], p[i])] :
              p \in Shapes(n), lab \in [1..n -> palette]} :
     \A i \in 1..n : doc[i].parent # Root => doc[doc[i].parent].tag \notin ChildlessTags}

ScraperDocuments == Documents(ScraperPalette, MaxNodes)

NoDocument == <<>>

\* The state the variables of the other scripts keep.
IdleCleaner == phase = 0 /\ queue = <<>> /\ run = 0

IdleAnalyzer ==
  all_colors = <<>> /\ external_stylesheets = <<>> /\ color_counter = EmptyBag

IdleClassifier == navArg = None /\ navResult = FALSE

InitScraper ==
  /\ prog = "scraper"
  /\ \/ file = "ok" /\ input \in ScraperDocuments
     \/ file \in {"missing", "unreadable"} /\ input = NoDocument
  /\ attrs = [e \in DOMAIN input |-> input[e].attrs]
  /\ gone = {}
  /\ mpc = "start" /\ exc = "none" /\ console = <<>> /\ written = FALSE
  /\ phase = 0 /\ queue = <<>> /\ run = 1
  /\ IdleAnalyzer /\ IdleClassifier

\* ------------------------------------------------------------------------
\* Scraper.py: main() and clean_html()
\* ------------------------------------------------------------------------

analyzerVars == <<all_colors, external_stylesheets, color_counter>>

classifierVars == <<navArg, navResult>>

\* Loop j is entered on the tree (g, at) and takes its list.
Enter(j, g, at) ==
  /\ phase' = j
  /\ queue' = IF j = Serializing THEN <<>> ELSE Snapshot(j, g, at)

\* Entering the rule pipeline on the tree as it is.
StartPipeline == \E j \in {NextPhase(0, gone, attrs)} : Enter(j, gone, attrs)

\* A main() that opens its output file for writing before it reads the input.
ScraperOpenOutputFirst ==
  /\ prog = "scraper" /\ mpc = "start"
  /\ console' = Append(console, "Cleaning HTML from")
  /\ written' = TRUE
  /\ IF file = "ok"
     THEN mpc' = "cleaning" /\ exc' = exc /\ StartPipeline
     ELSE /\ mpc' = "handler"
          /\ exc' = IF file = "missing" THEN "FileNotFoundError" ELSE "PermissionError"
          /\ UNCHANGED <<phase, queue>>
  /\ UNCHANGED <<prog, file, input, attrs, gone, run, analyzerVars, classifierVars>>

\* main() up to the first rule of clean_html: the banner, then open() of the
\* input, which raises when the file is missing or unreadable.
ScraperOpen ==
  /\ prog = "scraper" /\ mpc = "start"
  /\ console' = Append(console, "Cleaning HTML from")
  /\ IF file = "ok"
     THEN mpc' = "cleaning" /\ exc' = exc /\ StartPipeline
     ELSE /\ mpc' = "handler"
          /\ exc' = IF file = "missing" THEN "FileNotFoundError" ELSE "PermissionError"
          /\ UNCHANGED <<phase, queue>>
  /\ UNCHANGED <<prog, file, written, input, attrs, gone, run, analyzerVars, classifierVars>>

\* A loop of rule r is about to visit the head of its list.
Visiting(r) ==
  /\ prog = "scraper" /\ mpc = "cleaning"
  /\ phase <= Len(Pipeline) /\ Pipeline[phase].rule = r
  /\ queue # <<>>

\* A decomposed element keeps no attribute dictionary.
Wipe(at, g) == [e \in DOMAIN at |-> IF e \in g THEN EmptyDict ELSE at[e]]

\* The visit of the head ends with the tree (g, at): on to the next element
\* of the list, or to the next loop and its find_all().
Continue(g, at) ==
  \E g2 \in {g} : \E at2 \in {Wipe(at, g2)} :
    /\ gone' = g2
    /\ attrs' = at2
    /\ IF Len(queue) > 1
       THEN phase' = phase /\ queue' = Tail(queue)
       ELSE \E j \in {NextPhase(phase, g2, at2)} : Enter(j, g2, at2)
    /\ UNCHANGED <<prog, file, mpc, exc, console, written, input, run,
                   analyzerVars, classifierVars>>

\* The visit raises: clean_html is left for the handlers of main().
Throw(name) ==
  /\ mpc' = "handler" /\ exc' = name
  /\ UNCHANGED <<prog, file, console, written, input, attrs, gone, phase, queue,
                 run, analyzerVars, classifierVars>>

\* tag.get() on an element: bs4 leaves the behaviour of a decomposed element
\* undefined; its attribute dictionary is gone, and the call either raises
\* AttributeError or finds no attribute.
GetOutcomes(e) == IF e \in gone THEN {"AttributeError", "absent"} ELSE {"value"}

\* for tag in unwanted_tags: for element in soup.find_all(tag): decompose
RemoveUnwanted ==
  /\ Visiting("unwanted")
  /\ Continue(Decompose(gone, Head(queue)), attrs)

\* A header is deleted unless it holds a nav or has a navigation class.
HeaderRemoved(g, at, e) == ~has_nav(g, e) /\ ~has_nav_class(at, e)

RemoveHeaders ==
  /\ Visiting("header")
  /\ LET e == Head(queue)
     IN  \E outcome \in GetOutcomes(e) :
           IF outcome = "AttributeError" THEN Throw("AttributeError")
           ELSE Continue(IF HeaderRemoved(gone, attrs, e) THEN Decompose(gone, e) ELSE gone, attrs)

FilterScripts ==
  /\ Visiting("script")
  /\ LET e == Head(queue)
     IN  Continue(IF ScriptRemoved(gone, attrs, e) THEN Decompose(gone, e) ELSE gone, attrs)

RemoveExtensionTags ==
  /\ Visiting("ext_tag")
  /\ Continue(Decompose(gone, Head(queue)), attrs)

RemoveExtensionClasses ==
  /\ Visiting("ext_class")
  /\ Continue(Decompose(gone, Head(queue)), attrs)

RemoveResourceHints ==
  /\ Visiting("link_hint")
  /\ Continue(Decompose(gone, Head(queue)), attrs)

PruneMeta ==
  /\ Visiting("meta")
  /\ LET e == Head(queue)
     IN  Continue(IF MetaRemoved(attrs, e) THEN Decompose(gone, e) ELSE gone, attrs)

RemoveSeoLinks ==
  /\ Visiting("link_seo")
  /\ Continue(Decompose(gone, Head(queue)), attrs)

\* element = soup.find(id=element_id); if element: element.decompose()
RemoveConsent ==
  /\ Visiting("consent")
  /\ Continue(Decompose(gone, Head(queue)), attrs)

RemoveCookieClasses ==
  /\ Visiting("cookie")
  /\ Continue(Decompose(gone, Head(queue)), attrs)

\* The aria-hidden loop's decision on an element.
HiddenRemoved(g, at, e) ==
  /\ ~(NameOf(g, e) = "svg" \/ is_in_navigation(g, at, e))
  /\ TextLen(g, e) < MinTextLen

RemoveHidden ==
  /\ Visiting("aria_hidden")
  /\ LET e == Head(queue)
     IN  Continue(IF HiddenRemoved(gone, attrs, e) THEN Decompose(gone, e) ELSE gone, attrs)

\* The display:none loop's decision on an element.
DisplayNoneRemoved(g, at, e) ==
  /\ DisplayNone(Lower(Chars[Get(at, e, "style", "")]))
  /\ TextLen(g, e) < MinTextLen

RemoveDisplayNone ==
  /\ Visiting("display_none")
  /\ LET e == Head(queue)
     IN  \E outcome \in GetOutcomes(e) :
           IF outcome = "AttributeError" THEN Throw("AttributeError")
           ELSE Continue(IF DisplayNoneRemoved(gone, attrs, e) THEN Decompose(gone, e) ELSE gone, attrs)

\* The attribute loop on one tag: the inline style outside navigation, then
\* the listed attributes.
StrippedAttrs(g, at, e) ==
  LET styled == IF ~is_in_navigation(g, at, e) /\ HasAttr(at, e, "style")
                THEN DelAttr(at[e], "style") ELSE at[e]
  IN  DelAttrs(styled, RemovedAttrs(g, at, e))

StripAttributes ==
  /\ Visiting("attributes")
  /\ LET e == Head(queue)
     IN  Continue(gone, [attrs EXCEPT ![e] = StrippedAttrs(gone, attrs, e)])

RemoveEmpty ==
  /\ Visiting("empty")
  /\ LET e == Head(queue)
     IN  Continue(IF IsEmptyContainer(gone, attrs, e) THEN Decompose(gone, e) ELSE gone, attrs)

\* soup.prettify() and the return to main().
Serialize ==
  /\ prog = "scraper" /\ mpc = "cleaning" /\ phase = Serializing
  /\ mpc' = "cleaned"
  /\ UNCHANGED <<prog, file, exc, console, written, input, attrs, gone, phase,
                 queue, run, analyzerVars, classifierVars>>

\* main() writes cleaned_output.html and prints the sizes.
ScraperWrite ==
  /\ prog = "scraper" /\ mpc = "cleaned"
  /\ written' = TRUE
  /\ console' = Append(console, "Cleaned HTML saved")
  /\ mpc' = "exit"
  /\ UNCHANGED <<prog, file, exc, input, attrs, gone, phase, queue, run,
                 analyzerVars, classifierVars>>

\* except FileNotFoundError / except Exception
ScraperExcept ==
  /\ prog = "scraper" /\ mpc = "handler"
  /\ console' = Append(console, IF exc = "FileNotFoundError"
                                THEN "Error: Could not find" ELSE "Error")
  /\ mpc' = "exit"
  /\ UNCHANGED <<prog, file, exc, written, input, attrs, gone, phase, queue, run,
                 analyzerVars, classifierVars>>

NextScraper ==
  \/ ScraperOpen
  \/ RemoveUnwanted
  \/ RemoveHeaders
  \/ FilterScripts
  \/ RemoveExtensionTags
  \/ RemoveExtensionClasses
  \/ RemoveResourceHints
  \/ PruneMeta
  \/ RemoveSeoLinks
  \/ RemoveConsent
  \/ RemoveCookieClasses
  \/ RemoveHidden
  \/ RemoveDisplayNone
  \/ StripAttributes
  \/ RemoveEmpty
  \/ Serialize
  \/ ScraperWrite
  \/ ScraperExcept

SpecScraper == InitScraper /\ [][NextScraper]_vars

\* The cleaner run again, on the document it wrote.
Rerun ==
  /\ prog = "scraper" /\ mpc = "exit" /\ written /\ run = 1
  /\ run' = 2
  /\ mpc' = "cleaning"
  /\ StartPipeline
  /\ UNCHANGED <<prog, file, exc, console, written, input, attrs, gone,
                 analyzerVars, classifierVars>>

NextRerun == NextScraper \/ Rerun

SpecRerun == InitScraper /\ [][NextRerun]_vars

\* ------------------------------------------------------------------------
\* The Navigation Classifier called on the elements of a document
\* ------------------------------------------------------------------------

\* The elements the classified documents are made of: navigation tags, ids
\* and classes, and their near misses (another letter case, an empty class).
ClassifierPalette ==
  {Nav, Header, Div, P10, DivNavbar, HeaderMenu, DivCookie,
   El("div", Attr("id", "menuOpen"), 0, ""),
   El("div", Attr("id", "menuopen"), 0, ""),
   El("div", Attr("id", "sl-nav") @@ Attr("class", <<"hero">>), 0, ""),
   El("div", Attr("class", <<"Navigation">>), 0, ""),
   El("div", Attr("class", <<>>) @@ Attr("id", "main"), 0, "")}

ClassifierDocuments == Documents(ClassifierPalette, MaxNodes)

InitClassifier ==
  /\ prog = "classifier"
  /\ file = "ok" /\ input \in ClassifierDocuments
  /\ attrs = [e \in DOMAIN input |-> input[e].attrs]
  /\ gone = {}
  /\ mpc = "start" /\ exc = "none" /\ console = <<>> /\ written = FALSE
  /\ IdleCleaner /\ IdleAnalyzer /\ IdleClassifier

Classify ==
  /\ prog = "classifier"
  /\ \E e \in Nodes :
       /\ navArg' = e
       /\ navResult' = is_in_navigation(gone, attrs, e)
  /\ UNCHANGED <<prog, file, mpc, exc, console, written, input, attrs, gone,
                 phase, queue, run, analyzerVars>>

NextClassifier == Classify

SpecClassifier == InitClassifier /\ [][NextClassifier]_vars

\* ------------------------------------------------------------------------
\* StyleFinder.py: the color patterns
\* ------------------------------------------------------------------------

\* Whether position p of s holds a word character (\w).
WordAt(s, p) == p >= 1 /\ p <= Len(s) /\ IsWordChar(s[p])

\* \b between positions p and p + 1 of s.
Boundary(s, p) == WordAt(s, p) # WordAt(s, p + 1)

\* The literal lit (in lower case) at position i of s, under re.IGNORECASE.
LiteralAt(s, i, lit) ==
  /\ i + Len(lit) - 1 <= Len(s)
  /\ \A k \in 1..Len(lit) : LowerChar(s[i + k - 1]) = lit[k]

\* Where a greedy \s* that starts at p stops.
SkipSpaces(s, p) ==
  CHOOSE q \in p..(Len(s) + 1) :
    /\ \A x \in p..(q - 1) : IsSpace(s[x])
    /\ q = Len(s) + 1 \/ ~IsSpace(s[q])

Largest(S) == CHOOSE x \in S : \A y \in S : y <= x

Smallest(S) == CHOOSE x \in S : \A y \in S : x <= y

\* A match: its last position and the string findall() reports for it.
NoMatch == [end |-> 0, tok |-> <<>>]

\* r'#[0-9a-fA-F]{3,8}\b' at position i.
HexMatch(s, i) ==
  LET ends == {e \in (i + 3)..(i + 8) :
                 /\ e <= Len(s)
                 /\ \A x \in (i + 1)..e : IsHexDigit(s[x])
                 /\ Boundary(s, e)}
  IN  IF s[i] = "#" /\ ends # {}
      THEN [end |-> Largest(ends), tok |-> SubSeq(s, i, Largest(ends))]
      ELSE NoMatch

\* r'rgba?\([^)]+\)' and r'hsla?\([^)]+\)' at position i (name: rgb or hsl).
FunctionalMatch(name, s, i) ==
  LET opens == {q \in {i + 3, i + 4} :
                  /\ q <= Len(s) /\ s[q] = "("
                  /\ q = i + 4 => LowerChar(s[i + 3]) = "a"}
      ends == {c \in (i + 5)..Len(s) :
                 \E q \in opens :
                   /\ c >= q + 2 /\ s[c] = ")"
                   /\ \A x \in (q + 1)..(c - 1) : s[x] # ")"}
  IN  IF LiteralAt(s, i, Chars[name]) /\ ends # {}
      THEN [end |-> Smallest(ends), tok |-> SubSeq(s, i, Smallest(ends))]
      ELSE NoMatch

RgbMatch(s, i) == FunctionalMatch("rgb", s, i)

HslMatch(s, i) == FunctionalMatch("hsl", s, i)

color_properties == <<"color", "background-color", "border-color", "fill", "stroke">>

\* The rest of color_names after the property name that ends at position pe:
\* \s*:\s*([a-z]+)\b; the match reports the second group.
ValueMatch(s, pe) ==
  LET c == SkipSpaces(s, pe + 1)
      v == SkipSpaces(s, c + 1)
      ends == {w \in v..Len(s) :
                 /\ \A x \in v..w : IsLetter(s[x])
                 /\ Boundary(s, w)}
  IN  IF c <= Len(s) /\ s[c] = ":" /\ ends # {}
      THEN [end |-> Largest(ends), tok |-> SubSeq(s, v, Largest(ends))]
      ELSE NoMatch

\* color_names at position i: the first alternative that leads to a match.
NamedMatch(s, i) ==
  LET alts == {a \in 1..Len(color_properties) :
                 /\ LiteralAt(s, i, Chars[color_properties[a]])
                 /\ ValueMatch(s, i + Len(Chars[color_properties[a]]) - 1).end # 0}
  IN  IF Boundary(s, i - 1) /\ alts # {}
      THEN ValueMatch(s, i + Len(Chars[color_properties[Smallest(alts)]]) - 1)
      ELSE NoMatch

\* re.findall(pattern, s) from position `from`: the matches left to right,
\* none overlapping.
\* The match of one of the four patterns at position i.
MatchAt(pattern, s, i) ==
  CASE pattern = "hex_pattern" -> HexMatch(s, i)
    [] pattern = "rgb_pattern" -> RgbMatch(s, i)
    [] pattern = "hsl_pattern" -> HslMatch(s, i)
    [] pattern = "color_names" -> NamedMatch(s, i)

RECURSIVE FindAll(_, _, _)
FindAll(pattern, s, from) ==
  LET starts == {i \in from..Len(s) : MatchAt(pattern, s, i).end # 0}
  IN  IF starts = {} THEN <<>>
      ELSE <<MatchAt(pattern, s, Smallest(starts)).tok>>
             \o FindAll(pattern, s, MatchAt(pattern, s, Smallest(starts)).end + 1)

\* The values the named-color branch drops (compared as written).
excluded_names == {"inherit", "initial", "unset", "transparent", "currentColor"}

IsKeptName(tok) == \A n \in excluded_names : tok # Chars[n]

extract_colors_from_style(style_text) ==
  FindAll("hex_pattern", style_text, 1)
    \o FindAll("rgb_pattern", style_text, 1)
    \o FindAll("hsl_pattern", style_text, 1)
    \o SelectSeq(FindAll("color_names", style_text, 1), IsKeptName)

\* ------------------------------------------------------------------------
\* StyleFinder.py: analyze_styles() and main()
\* ------------------------------------------------------------------------

\* list.extend() with one list after the other.
RECURSIVE Collect(_)
Collect(lists) ==
  IF lists = <<>> THEN <<>> ELSE Head(lists) \o Collect(Tail(lists))

FindAllTags(names) == InDocOrder({e \in Nodes : input[e].tag \in names})

\* style_tag.string or ''
StyleTagColors(e) == extract_colors_from_style(Chars[input[e].string])

\* element.get('style', '')
InlineColors(e) == extract_colors_from_style(Chars[Get(attrs, e, "style", "")])

\* if x.get('fill'): append; if x.get('stroke'): append
PresentationColors(e) ==
  (IF Get(attrs, e, "fill", "") # "" THEN <<Chars[attrs[e]["fill"]]>> ELSE <<>>)
    \o (IF Get(attrs, e, "stroke", "") # "" THEN <<Chars[attrs[e]["stroke"]]>> ELSE <<>>)

\* One iteration of the svg loop: the svg itself, then svg.find_all().
SvgColors(svg) ==
  PresentationColors(svg)
    \o LET below == InDocOrder(Descendants({}, svg))
       IN  Collect([i \in 1..Len(below) |-> PresentationColors(below[i])])

noise_colors == {"none", "transparent", "inherit", "currentcolor"}

\* Counter(tokens)
Counter(tokens) ==
  [t \in {tokens[i] : i \in 1..Len(tokens)} |->
     Cardinality({i \in 1..Len(tokens) : tokens[i] = t})]

\* The counter without its noise keys (compared in lower case).
WithoutNoise(counter) ==
  [t \in {k \in DOMAIN counter : \A n \in noise_colors : Lower(k) # Chars[n]} |->
     counter[t]]

\* The elements the analyzed documents are made of: a style block, inline
\* styles, an svg icon and a shape for it, a stylesheet link, a plain div.
AnalyzerPalette ==
  {El("style", EmptyDict, 0, "body{color:#FFF;background-color:#fff}"),
   El("div", Attr("style", "color: #FF0000; background-color: rgba(0,0,0,0.5);"), 5, ""),
   El("div", Attr("style", "color: transparent;"), 5, ""),
   El("span", Attr("style", "fill: NONE; stroke: currentColor"), 0, ""),
   El("p", Attr("style", "color: Inherit; border: 1px solid red"), 10, ""),
   El("p", Attr("style", "color:#abcdefg;fill:hsl(0,0%,50%)"), 10, ""),
   El("span", Attr("style", "color: red2; stroke : blue"), 4, ""),
   El("svg", Attr("fill", "none") @@ Attr("stroke", "#fff"), 0, ""),
   El("path", Attr("fill", "red") @@ Attr("stroke", "Transparent"), 0, ""),
   El("link", Attr("rel", <<"stylesheet">>) @@ Attr("href", "/a.css"), 0, ""),
   Div}

AnalyzerDocuments == Documents(AnalyzerPalette, MaxNodes)

InitAnalyzer ==
  /\ prog = "stylefinder"
  /\ \/ file = "ok" /\ input \in AnalyzerDocuments
     \/ file \in {"missing", "unreadable"} /\ input = NoDocument
  /\ attrs = [e \in DOMAIN input |-> input[e].attrs]
  /\ gone = {}
  /\ mpc = "start" /\ exc = "none" /\ console = <<>> /\ written = FALSE
  /\ IdleCleaner /\ IdleAnalyzer /\ IdleClassifier

cleanerVars == <<attrs, gone, phase, queue, run>>

\* main() up to the parse in analyze_styles: the banner, then open().
AnalyzerOpen ==
  /\ prog = "stylefinder" /\ mpc = "start"
  /\ console' = Append(console, "Analyzing styles from")
  /\ IF file = "ok"
     THEN mpc' = "style_tags" /\ exc' = exc
     ELSE /\ mpc' = "handler"
          /\ exc' = IF file = "missing" THEN "FileNotFoundError" ELSE "PermissionError"
  /\ UNCHANGED <<prog, file, written, input, cleanerVars, analyzerVars, classifierVars>>

\* 1. for style_tag in soup.find_all('style')
AnalyzeStyleTags ==
  /\ prog = "stylefinder" /\ mpc = "style_tags"
  /\ LET found == FindAllTags({"style"})
     IN  all_colors' = all_colors
           \o Collect([i \in 1..Len(found) |-> StyleTagColors(found[i])])
  /\ mpc' = "inline"
  /\ UNCHANGED <<prog, file, exc, console, written, input, cleanerVars,
                 external_stylesheets, color_counter, classifierVars>>

\* 2. for element in soup.find_all(style=True)
AnalyzeInlineStyles ==
  /\ prog = "stylefinder" /\ mpc = "inline"
  /\ LET found == InDocOrder({e \in Nodes : HasAttr(attrs, e, "style")})
     IN  all_colors' = all_colors
           \o Collect([i \in 1..Len(found) |-> InlineColors(found[i])])
  /\ mpc' = "links"
  /\ UNCHANGED <<prog, file, exc, console, written, input, cleanerVars,
                 external_stylesheets, color_counter, classifierVars>>

\* The href of a stylesheet link, if it has one.
StylesheetHref(e) ==
  IF Get(attrs, e, "href", "") # "" THEN <<attrs[e]["href"]>> ELSE <<>>

\* 3. for link in soup.find_all('link', rel='stylesheet')
AnalyzeLinks ==
  /\ prog = "stylefinder" /\ mpc = "links"
  /\ LET found == InDocOrder({e \in Nodes : /\ input[e].tag = "link"
                                            /\ HasToken(attrs, e, "rel", {"stylesheet"})})
     IN  external_stylesheets' =
           Collect([i \in 1..Len(found) |-> StylesheetHref(found[i])])
  /\ mpc' = "svg"
  /\ UNCHANGED <<prog, file, exc, console, written, input, cleanerVars,
                 all_colors, color_counter, classifierVars>>

\* 4. for svg in soup.find_all('svg')
AnalyzeSvg ==
  /\ prog = "stylefinder" /\ mpc = "svg"
  /\ LET found == FindAllTags({"svg"})
     IN  all_colors' = all_colors
           \o Collect([i \in 1..Len(found) |-> SvgColors(found[i])])
  /\ mpc' = "count"
  /\ UNCHANGED <<prog, file, exc, console, written, input, cleanerVars,
                 external_stylesheets, color_counter, classifierVars>>

\* Counter(all_colors), the noise keys removed, and the return to main().
CountColors ==
  /\ prog = "stylefinder" /\ mpc = "count"
  /\ color_counter' = WithoutNoise(Counter(all_colors))
  /\ mpc' = "analyzed"
  /\ UNCHANGED <<prog, file, exc, console, written, input, cleanerVars,
                 all_colors, external_stylesheets, classifierVars>>

\* print_analysis(results), then save_to_file() writes style_analysis.txt.
AnalyzerReport ==
  /\ prog = "stylefinder" /\ mpc = "analyzed"
  /\ console' = console \o <<"STYLE ANALYSIS RESULTS", "Detailed analysis saved">>
  /\ written' = TRUE
  /\ mpc' = "exit"
  /\ UNCHANGED <<prog, file, exc, input, cleanerVars, analyzerVars, classifierVars>>

\* except FileNotFoundError / except Exception
AnalyzerExcept ==
  /\ prog = "stylefinder" /\ mpc = "handler"
  /\ console' = console \o (IF exc = "FileNotFoundError"
                            THEN <<"Error: Could not find", "Make sure Sample.txt exists">>
                            ELSE <<"Error", "traceback">>)
  /\ mpc' = "exit"
  /\ UNCHANGED <<prog, file, exc, written, input, cleanerVars, analyzerVars,
                 classifierVars>>

NextAnalyzer ==
  \/ AnalyzerOpen
  \/ AnalyzeStyleTags
  \/ AnalyzeInlineStyles
  \/ AnalyzeLinks
  \/ AnalyzeSvg
  \/ CountColors
  \/ AnalyzerReport
  \/ AnalyzerExcept

SpecAnalyzer == InitAnalyzer /\ [][NextAnalyzer]_vars

\* ------------------------------------------------------------------------
\* Both scripts
\* ------------------------------------------------------------------------

Init == InitScraper \/ InitAnalyzer

Next == NextScraper \/ NextAnalyzer

Spec == Init /\ [][Next]_vars

\* ------------------------------------------------------------------------
\* Properties
\* ------------------------------------------------------------------------

\* clean_html has returned its output.
Cleaned == prog = "scraper" /\ mpc = "cleaned"

\* An element of the input that marks a navigation region: a nav or header
\* tag, a class string with a navigation word in it, or a navigation id.
MarksNavigation(a) ==
  \/ input[a].tag \in {"nav", "header"}
  \/ /\ "class" \in DOMAIN input[a].attrs
     /\ \E w \in {"nav", "navigation", "menu", "navbar", "sl-nav", "offcanvas"} :
          Contains(JoinSpace(TokChars(input[a].attrs["class"])), Chars[w])
  \/ /\ "id" \in DOMAIN input[a].attrs
     /\ input[a].attrs["id"] \in
          {"nav-header", "sl-nav", "sl-header-offcanvas", "menuOpen", "menuClose"}

\* The element has a navigation ancestor.
InsideNavigation(e) == \E a \in AncestorsIn(input, e) : MarksNavigation(a)

\* C1: after clean_html has applied all its rules, every element that was a
\* descendant of a <nav> in the input is still in the tree.
C1_NavigationPreserved ==
  Cleaned =>
    \A e \in Nodes :
      (\E a \in AncestorsIn(input, e) : input[a].tag = "nav") => e \notin gone

\* C2: a second application of the rule pipeline to the tree the first one
\* produced removes no element and no attribute.
C2_Idempotent == [][run = 2 => (gone' = gone /\ attrs' = attrs)]_vars

\* The element has a child <svg> in the tree.
HasSvgChild(e) ==
  \E c \in Nodes \ gone : input[c].parent = e /\ input[c].tag = "svg"

\* C3: when the aria-hidden loop visits a <div> that is not inside
\* navigation, it removes it if its trimmed text has 9 characters, keeps it
\* if the text has 10 characters, and keeps it whatever the text length if it
\* has an <svg> child.
C3_HiddenThreshold ==
  [][Visiting("aria_hidden") =>
       \A e \in Nodes \ gone :
         (e = Head(queue) /\ input[e].tag = "div" /\ ~InsideNavigation(e)) =>
           /\ TextLen(gone, e) = 9 => e \in gone'
           /\ TextLen(gone, e) = 10 => e \notin gone'
           /\ HasSvgChild(e) => e \notin gone']_vars

\* A <script> whose src contains googletagmanager.
IsGtmScript(e) ==
  /\ input[e].tag = "script"
  /\ "src" \in DOMAIN input[e].attrs
  /\ Contains(Chars[input[e].attrs["src"]], Chars["googletagmanager"])

\* A <script src="/app.js"> with no other attribute and no text: it matches
\* none of the script-filter conditions.
IsAppScript(e) ==
  /\ input[e].tag = "script"
  /\ input[e].attrs = Attr("src", "/app.js")
  /\ input[e].string = ""

\* C4 as stated: in the output no googletagmanager script is left and every
\* <script src="/app.js"> is present, wherever they stand in the input.
C4_TrackingRemoval ==
  Cleaned =>
    \A e \in Nodes :
      /\ IsGtmScript(e) => e \in gone
      /\ IsAppScript(e) => e \notin gone

\* C4 as amended: in the output no googletagmanager script is left, and a
\* <script src="/app.js"> leaves the tree only in a step that deletes one of
\* its ancestors.
C4_TrackingRemovalAmended ==
  /\ [](Cleaned => \A e \in Nodes : IsGtmScript(e) => e \in gone)
  /\ [][\A e \in Nodes :
          (IsAppScript(e) /\ e \notin gone /\ e \in gone') =>
            \E a \in AncestorsIn(input, e) : a \notin gone /\ a \in gone']_vars

\* C4's case: the output of a document with both scripts, the tracker gone
\* and the application script still there.
C4_Witness ==
  /\ Cleaned
  /\ \E e \in Nodes : IsGtmScript(e) /\ e \in gone
  /\ \E e \in Nodes : IsAppScript(e) /\ e \notin gone

region_attrs ==
  {"data-bs-target", "data-bs-toggle", "data-bs-dismiss",
   "data-fa-i2svg", "data-icon", "data-prefix"}

\* C5: in the output an element inside navigation carries each of the six
\* Bootstrap / Font Awesome attributes it had in the input, with its value,
\* and an element outside navigation carries none of them.
C5_AttributesByRegion ==
  Cleaned =>
    \A e \in Nodes \ gone :
      IF InsideNavigation(e)
      THEN \A a \in region_attrs \cap DOMAIN input[e].attrs :
             a \in DOMAIN attrs[e] /\ attrs[e][a] = input[e].attrs[a]
      ELSE region_attrs \cap DOMAIN attrs[e] = {}

\* C5's case: the output holds an element inside navigation that kept
\* data-bs-toggle and one outside navigation that lost it.
C5_Witness ==
  /\ Cleaned
  /\ \E e \in Nodes \ gone :
       InsideNavigation(e) /\ "data-bs-toggle" \in DOMAIN attrs[e]
  /\ \E e \in Nodes \ gone :
       /\ ~InsideNavigation(e)
       /\ "data-bs-toggle" \in DOMAIN input[e].attrs
       /\ "data-bs-toggle" \notin DOMAIN attrs[e]

\* C6: is_in_navigation(e) is true exactly when a proper ancestor of e marks
\* a navigation region; e's own tag, class and id do not count.
C6_Classifier ==
  (prog = "classifier" /\ navArg # None) =>
    navResult = InsideNavigation(navArg)

\* C6's case: the call returned true for an element whose parent marks no
\* navigation region: the walk went on to an ancestor further up.
C6_Witness ==
  /\ prog = "classifier" /\ navArg # None /\ navResult
  /\ input[navArg].parent # Root
  /\ ~MarksNavigation(input[navArg].parent)

\* The document's only color source is one element's inline style `text`.
OnlyStyle(text) ==
  /\ prog = "stylefinder" /\ file = "ok"
  /\ \E e \in Nodes :
       /\ input[e].attrs = Attr("style", text)
       /\ \A o \in Nodes \ {e} : input[o].attrs = EmptyDict /\ input[o].tag = "div"

\* C7: the red/black style text gives the table {#FF0000: 1,
\* rgba(0,0,0,0.5): 1}, the transparent one gives the empty table, and no key
\* of the final table is none, transparent, inherit or currentcolor in any
\* letter case.
C7_ColorExtraction ==
  (prog = "stylefinder" /\ mpc = "analyzed") =>
    /\ OnlyStyle("color: #FF0000; background-color: rgba(0,0,0,0.5);") =>
         color_counter = (Chars["#FF0000"] :> 1) @@ (Chars["rgba(0,0,0,0.5)"] :> 1)
    /\ OnlyStyle("color: transparent;") => DOMAIN color_counter = {}
    /\ \A k \in DOMAIN color_counter :
         \A n \in {"none", "transparent", "inherit", "currentcolor"} :
           Lower(k) # Chars[n]

\* C8: with the input file missing or unreadable, neither script opens its
\* output file, each reports the error, and the exception is handled inside
\* main().
C8_InputNotFound ==
  file # "ok" =>
    /\ ~written
    /\ mpc \in {"start", "handler", "exit"}
    /\ mpc = "handler" => exc \in {"FileNotFoundError", "PermissionError"}
    /\ mpc = "exit" =>
         \E i \in 1..Len(console) : console[i] \in {"Error: Could not find", "Error"}

\* C8's case: a run on a missing input has ended.
C8_Witness == file = "missing" /\ mpc = "exit"

\* A <div> or <span> the empty-container rule is meant to delete: outside
\* navigation, no text, no img, a, h1-h6 or svg below it.
EmptyOutsideNavigation(g, e) ==
  /\ e \notin g
  /\ input[e].tag \in {"div", "span"}
  /\ ~InsideNavigation(e)
  /\ TextLen(g, e) = 0
  /\ \A d \in Descendants(g, e) :
       input[d].tag \notin {"img", "a", "h1", "h2", "h3", "h4", "h5", "h6", "svg"}

\* C9: the output holds no empty container outside navigation, and a
\* deletion by the empty-container loop never makes another container one.
C9_EmptyFixedPoint ==
  /\ [](Cleaned => \A e \in Nodes : ~EmptyOutsideNavigation(gone, e))
  /\ [][Visiting("empty") =>
          \A e \in Nodes :
            EmptyOutsideNavigation(gone', e) => EmptyOutsideNavigation(gone, e)]_vars

\* C9's case: an empty <div> nested in an empty top-level <div>, both deleted.
C9_Witness ==
  /\ Cleaned
  /\ \E e \in Nodes : \E c \in Nodes :
       /\ input[e] = Node(Div, Root) /\ input[c] = Node(Div, e)
       /\ {e, c} \subseteq gone

\* C10: the element a loop of the cleaner is about to visit is in the tree.
C10_VisitsAttached ==
  (prog = "scraper" /\ mpc = "cleaning" /\ queue # <<>>) => Head(queue) \notin gone

\* The non-empty fill and stroke attributes of the <svg> elements and of the
\* elements below an <svg>, as pairs of element and attribute name.
SvgPaints ==
  {p \in Nodes \X {"fill", "stroke"} :
     /\ input[p[1]].tag = "svg" \/ \E a \in AncestorsIn(input, p[1]) : input[a].tag = "svg"
     /\ p[2] \in DOMAIN input[p[1]].attrs
     /\ input[p[1]].attrs[p[2]] # ""}

\* C11: the svg step of analyze_styles appends one token to the raw color
\* list for each non-empty fill or stroke attribute of an <svg> or of an
\* element below an <svg>, nested <svg> elements included: no more, no fewer.
C11_SvgCountedOnce ==
  [][(prog = "stylefinder" /\ mpc = "svg") =>
       /\ Len(all_colors') = Len(all_colors) + Cardinality(SvgPaints)
       /\ \A p \in SvgPaints :
            Cardinality({i \in Len(all_colors) + 1 .. Len(all_colors') :
                           all_colors'[i] = Chars[input[p[1]].attrs[p[2]]]})
              = Cardinality({q \in SvgPaints :
                               input[q[1]].attrs[q[2]] = input[p[1]].attrs[p[2]]})]_vars

====
